---- MODULE Spec2Model ----
(***************************************************************************)
(* Model of the hardware-kiosk agent endpoint (src/pages/api/agent.ts):    *)
(* intent classification, candidate search, the generative proposal and    *)
(* the server-side validation/merge of the proposed basket against the     *)
(* candidate set and the client cart.                                      *)
(*                                                                         *)
(* Text is modelled as TLA+ strings and every pattern of the source is     *)
(* evaluated on the characters (substring search, \b word boundaries,      *)
(* lower-casing, diacritic stripping), so a classification is computed     *)
(* from the utterance and never assumed.                                   *)
(***************************************************************************)
EXTENDS Integers, Sequences, FiniteSets, TLC

(***************************************************************************)
(* Bounds of the model.                                                    *)
(***************************************************************************)
\* largest quantity of a client-cart line
MaxQty == 2
\* largest number of lines in a proposed basket
MaxLines == 2

(***************************************************************************)
(* Strings.                                                                *)
(***************************************************************************)
Min(a, b) == IF a < b THEN a ELSE b
Max(a, b) == IF a > b THEN a ELSE b

CharAt(s, i) == SubSeq(s, i, i)

\* String.prototype.includes
Includes(s, p) ==
    \E i \in 1..(Len(s) - Len(p) + 1) : SubSeq(s, i, i + Len(p) - 1) = p

IncludesAny(s, ps) == \E p \in ps : Includes(s, p)

UpperToLower ==
    [c \in {"A","B","C","D","E","F","G","H","I","J","K","L","M","N","O","P","Q",
            "R","S","T","U","V","W","X","Y","Z","Á","É","Í","Ó","Ú","Ñ","Ü"} |->
        CASE c = "A" -> "a" [] c = "B" -> "b" [] c = "C" -> "c" [] c = "D" -> "d"
          [] c = "E" -> "e" [] c = "F" -> "f" [] c = "G" -> "g" [] c = "H" -> "h"
          [] c = "I" -> "i" [] c = "J" -> "j" [] c = "K" -> "k" [] c = "L" -> "l"
          [] c = "M" -> "m" [] c = "N" -> "n" [] c = "O" -> "o" [] c = "P" -> "p"
          [] c = "Q" -> "q" [] c = "R" -> "r" [] c = "S" -> "s" [] c = "T" -> "t"
          [] c = "U" -> "u" [] c = "V" -> "v" [] c = "W" -> "w" [] c = "X" -> "x"
          [] c = "Y" -> "y" [] c = "Z" -> "z" [] c = "Á" -> "á" [] c = "É" -> "é"
          [] c = "Í" -> "í" [] c = "Ó" -> "ó" [] c = "Ú" -> "ú" [] c = "Ñ" -> "ñ"
          [] c = "Ü" -> "ü"]

\* the base letter left by normalize("NFD") once \p{Diacritic} is removed
Undecorated ==
    [c \in {"á","é","í","ó","ú","ñ","ü"} |->
        CASE c = "á" -> "a" [] c = "é" -> "e" [] c = "í" -> "i" [] c = "ó" -> "o"
          [] c = "ú" -> "u" [] c = "ñ" -> "n" [] c = "ü" -> "u"]

RECURSIVE MapChars(_, _)
\* s with every character in the domain of f replaced by its image (the string is
\* halved at each step, the two halves mapped and joined)
MapChars(s, f) ==
    IF Len(s) = 0 THEN ""
    ELSE IF Len(s) = 1 THEN (IF s \in DOMAIN f THEN f[s] ELSE s)
    ELSE MapChars(SubSeq(s, 1, Len(s) \div 2), f)
         \o MapChars(SubSeq(s, Len(s) \div 2 + 1, Len(s)), f)

\* String.prototype.toLowerCase
toLowerCase(s) == MapChars(s, UpperToLower)

\* .normalize("NFD").replace(/\p{Diacritic}/gu, "")
stripDiacritics(s) == MapChars(s, Undecorated)

WordChars ==
    {"a","b","c","d","e","f","g","h","i","j","k","l","m","n","o","p","q","r","s",
     "t","u","v","w","x","y","z","0","1","2","3","4","5","6","7","8","9","_"}
     \cup {"A","B","C","D","E","F","G","H","I","J","K","L","M","N","O","P","Q","R","S",
           "T","U","V","W","X","Y","Z"}
Digits == {"0","1","2","3","4","5","6","7","8","9"}
Spaces == {" "}

\* \w at position i (positions outside the string are not word characters)
IsWord(s, i) == i >= 1 /\ i <= Len(s) /\ CharAt(s, i) \in WordChars

\* \b between positions i and i+1
Boundary(s, i) == IsWord(s, i) # IsWord(s, i + 1)

\* p matched at position i
MatchAt(s, p, i) == i >= 1 /\ i + Len(p) - 1 <= Len(s) /\ SubSeq(s, i, i + Len(p) - 1) = p

\* /(p1|p2|...)\b/.test(s)
TestThenBoundary(s, ps) ==
    \E p \in ps : \E i \in 1..Len(s) : MatchAt(s, p, i) /\ Boundary(s, i + Len(p) - 1)

\* /\b(p1|p2|...)\b/.test(s)
TestWord(s, ps) ==
    \E p \in ps : \E i \in 1..Len(s) :
        MatchAt(s, p, i) /\ Boundary(s, i - 1) /\ Boundary(s, i + Len(p) - 1)

RECURSIVE TrimLeft(_)
TrimLeft(s) ==
    IF Len(s) > 0 /\ CharAt(s, 1) \in Spaces THEN TrimLeft(SubSeq(s, 2, Len(s))) ELSE s
RECURSIVE TrimRight(_)
TrimRight(s) ==
    IF Len(s) > 0 /\ CharAt(s, Len(s)) \in Spaces
    THEN TrimRight(SubSeq(s, 1, Len(s) - 1)) ELSE s
\* String.prototype.trim
trim(s) == TrimRight(TrimLeft(s))

(***************************************************************************)
(* Intents.                                                                *)
(***************************************************************************)
endIntent(text) ==
    LET s == trim(toLowerCase(text))
        phrases == {"no", "no gracias", "eso es todo", "listo", "estoy bien",
                    "nada mas", "nada más"}
    IN  \/ s \in phrases
        \/ /\ Len(s) > 0
           /\ CharAt(s, Len(s)) = "."
           /\ SubSeq(s, 1, Len(s) - 1) \in phrases

replaceIntent(text) ==
    LET s == stripDiacritics(toLowerCase(text))
    IN  TestThenBoundary(s, {"mejor", "prefiero", "cambial", "cambia", "en lugar de",
                             "en vez de", "mejor pon", "mejor usa"})

removeIntent(text) ==
    LET s == toLowerCase(text)
    IN  TestThenBoundary(s, {"quita", "remueve", "borra", "elimina", "saca", "sin"})

addIntent(text) ==
    LET s == stripDiacritics(toLowerCase(text))
    IN  TestWord(s, {"si", "agrega", "agregalo", "anade", "ponlo", "sumalo", "dame",
                     "me lo llevo", "tambien", "incluyelo", "mete"})


(***************************************************************************)
(* Query normalisation and the token search terms.                         *)
(***************************************************************************)
RECURSIVE DigitsEnd(_, _)
\* last index of the run of digits that starts at i
DigitsEnd(s, i) ==
    IF i + 1 <= Len(s) /\ CharAt(s, i + 1) \in Digits THEN DigitsEnd(s, i + 1) ELSE i

RECURSIVE SkipSpaces(_, _)
\* first index >= i that holds no white space
SkipSpaces(s, i) ==
    IF i <= Len(s) /\ CharAt(s, i) \in Spaces THEN SkipSpaces(s, i + 1) ELSE i

\* end of a match of /\b(\d+\s*\/\s*\d+)\b/ starting at i, or 0
FracEnd(s, i) ==
    IF ~(i <= Len(s) /\ CharAt(s, i) \in Digits /\ ~IsWord(s, i - 1)) THEN 0
    ELSE LET slash == SkipSpaces(s, DigitsEnd(s, i) + 1)
             den   == SkipSpaces(s, slash + 1)
         IN  IF /\ slash <= Len(s) /\ CharAt(s, slash) = "/"
                /\ den <= Len(s) /\ CharAt(s, den) \in Digits
                /\ ~IsWord(s, DigitsEnd(s, den) + 1)
             THEN DigitsEnd(s, den) ELSE 0

\* .replace(/\s+/g, "")
DropSpaces(s) == MapChars(s, [c \in Spaces |-> ""])

\* the fraction s.match(...) captures, as a list of zero or one string
FracOf(s) ==
    LET starts == {i \in 1..Len(s) : FracEnd(s, i) > 0}
    IN  IF starts = {} THEN <<>>
        ELSE LET i == CHOOSE j \in starts : \A k \in starts : j <= k
             IN  <<DropSpaces(SubSeq(s, i, FracEnd(s, i)))>>

RECURSIVE Dedupe(_)
\* Array.from(new Set(t)): first occurrences, in order
Dedupe(t) ==
    IF t = <<>> THEN <<>>
    ELSE LET front == Dedupe(SubSeq(t, 1, Len(t) - 1))
             last  == t[Len(t)]
         IN  IF \E i \in DOMAIN front : front[i] = last THEN front
             ELSE Append(front, last)

RECURSIVE Join(_, _)
\* Array.prototype.join
Join(t, sep) ==
    IF t = <<>> THEN ""
    ELSE IF Len(t) = 1 THEN t[1]
    ELSE t[1] \o sep \o Join(Tail(t), sep)

If(c, v) == IF c THEN <<v>> ELSE <<>>

normalizeQuery(q) ==
    LET s == toLowerCase(q)
        t == If(Includes(s, "pvc"), "pvc")
             \o If(Includes(s, "cpvc"), "cpvc")
             \o If(Includes(s, "cobre"), "cobre")
             \o If(Includes(s, "pex"), "pex")
             \o If(Includes(s, "tablaroca") \/ Includes(s, "drywall"), "tablaroca")
             \o If(Includes(s, "madera"), "madera")
             \o FracOf(s)
             \o If(Includes(s, "media"), "1/2")
             \o If(Includes(s, "tres cuartos"), "3/4")
             \o If(Includes(s, "un cuarto") \/ Includes(s, "cuarto"), "1/4")
             \o If(Includes(s, "tres octavos"), "3/8")
             \o If(Includes(s, "cinco octavos"), "5/8")
             \o If(Includes(s, "una pulgada") \/ Includes(s, "1 pulgada")
                   \/ Includes(s, "1\""), "1\"")
             \o If(Includes(s, "media pulgada"), "1/2")
        compact == trim(Join(Dedupe(t), " "))
    IN  IF compact # "" THEN compact ELSE q

RECURSIVE Blanked(_)
\* .replace(/[^a-z0-9\s]/g, " "), white space written as a blank
Blanked(s) ==
    IF Len(s) = 0 THEN ""
    ELSE IF Len(s) = 1
    THEN (IF s \in WordChars \ {"_"} /\ s \notin DOMAIN UpperToLower THEN s ELSE " ")
    ELSE Blanked(SubSeq(s, 1, Len(s) \div 2))
         \o Blanked(SubSeq(s, Len(s) \div 2 + 1, Len(s)))

tokenWhitelist ==
    {"repuesto", "disco", "cuchilla", "cortatubo", "corta", "tubo", "teflon", "ptfe",
     "union", "roscada", "cople", "pvc", "cobre"}

\* the whitelisted words among the words (of 3 letters or more) of the utterance
searchTokens(q) ==
    LET s == " " \o Blanked(stripDiacritics(toLowerCase(q))) \o " "
    IN  {w \in tokenWhitelist : Len(w) >= 3 /\ Includes(s, " " \o w \o " ")}

(***************************************************************************)
(* The catalog (table "products") and the inputs of a turn.                *)
(***************************************************************************)
Catalog ==
    << [sku |-> "PTF-12", name |-> "Cinta de teflón 1/2\"x12m",
        description |-> "Cinta selladora para roscas", category |-> "Plomería",
        subcategory |-> "Selladores", stock |-> 25],
       [sku |-> "REP-CORTA-001", name |-> "Repuesto de cuchilla para cortatubo",
        description |-> "Cuchilla de repuesto para cortatubo de cobre",
        category |-> "Herramientas", subcategory |-> "Corte", stock |-> 8],
       [sku |-> "CORTA-COBRE-001", name |-> "Cortatubo para cobre",
        description |-> "Cortatubo ajustable para tubo de cobre",
        category |-> "Herramientas", subcategory |-> "Corte", stock |-> 4],
       [sku |-> "PVC-UNION-050", name |-> "Unión roscada 1/2\"",
        description |-> "Unión roscada de PVC de 1/2 pulgada", category |-> "Plomería",
        subcategory |-> "Conexiones", stock |-> 12],
       [sku |-> "PVC-CPL-050", name |-> "Cople recto 1/2\"",
        description |-> "Cople recto de PVC de 1/2 pulgada", category |-> "Plomería",
        subcategory |-> "Conexiones", stock |-> 0] >>

Range(f) == {f[i] : i \in DOMAIN f}
Skus(lines) == {lines[i].sku : i \in DOMAIN lines}
CatalogSkus == Skus(Catalog)

\* a SKU that no product of the catalog has
InventedSku == "FAKE-999"

\* .from("products").select(...).in("sku", skus): the rows, in table order
selectIn(skus) == SelectSeq(Catalog, LAMBDA p : p.sku \in skus)

\* what the customer says (req.body.q)
Utterances ==
    {"no gracias", "mejor pon el cople", "sí, dame el repuesto", "sí, pero sin el teflón",
     "quita el teflón", "Tengo fuga en un tubo de PVC de media", "sí, mejor dame la unión",
     "cámbialo por la unión", "prefiero la unión con teflón"}

(***************************************************************************)
(* Keyword fallback.                                                       *)
(***************************************************************************)
keywords ==
    << {"union", "unión", "roscada"},
       {"teflon", "teflón", "ptf", "ptfe", "cinta"},
       {"cople", "acople", "empalme"},
       {"cortatubo", "corta tubo"},
       {"repuesto", "disco", "cuchilla"},
       {"pegamento", "cemento", "adhesivo", "pvc"},
       {"primer", "limpiador"} >>

\* the haystack of a candidate
hay(c) ==
    toLowerCase(c.name \o " " \o c.description \o " " \o c.category \o " " \o c.subcategory)

\* the groups that the text and the candidate both mention
sharedGroups(text, c) ==
    {g \in DOMAIN keywords : IncludesAny(text, keywords[g]) /\ IncludesAny(hay(c), keywords[g])}

keywordScore(text, c) ==
    2 * Cardinality(sharedGroups(text, c)) + (IF c.stock > 0 THEN 1 ELSE 0)

\* the text pickByKeywords matches against
pickText(q, qNorm) == toLowerCase(q \o " " \o qNorm)

\* normalizeQuery and the scores of the catalog's products, computed once for the
\* utterances of the model
QNorm == [q \in Utterances |-> normalizeQuery(q)]
KeywordScores ==
    [u \in Utterances, sku \in CatalogSkus |->
        keywordScore(pickText(u, QNorm[u]), CHOOSE p \in Range(Catalog) : p.sku = sku)]

\* normalizeQuery(q), looked up when it was computed before
normalized(q) == IF q \in Utterances THEN QNorm[q] ELSE normalizeQuery(q)

\* keywordScore of a candidate, looked up when it was computed before
scoreOf(q, qNorm, c) ==
    IF q \in Utterances /\ qNorm = QNorm[q] /\ c \in Range(Catalog)
    THEN KeywordScores[q, c.sku]
    ELSE keywordScore(pickText(q, qNorm), c)

MaxScore == 2 * Len(keywords) + 1

RECURSIVE ByScoreFrom(_, _, _, _)
\* the candidates of score <= s and > 0, by decreasing score, each score in list order
ByScoreFrom(q, qNorm, candidates, s) ==
    IF s = 0 THEN <<>>
    ELSE SelectSeq(candidates, LAMBDA c : scoreOf(q, qNorm, c) = s)
         \o ByScoreFrom(q, qNorm, candidates, s - 1)

\* a picker that filters and caps but does not sort by score
pickInListOrder(q, qNorm, candidates, max) ==
    LET kept == SelectSeq(candidates, LAMBDA c : scoreOf(q, qNorm, c) > 0)
    IN  SubSeq(kept, 1, Min(max, Len(kept)))

\* a picker that sorts but keeps the candidates of score 0
pickUnfiltered(q, qNorm, candidates, max) ==
    LET sorted == ByScoreFrom(q, qNorm, candidates, MaxScore)
                  \o SelectSeq(candidates, LAMBDA c : scoreOf(q, qNorm, c) = 0)
    IN  SubSeq(sorted, 1, Min(max, Len(sorted)))

pickByKeywords(q, qNorm, candidates, max) ==
    LET sorted == ByScoreFrom(q, qNorm, candidates, MaxScore)
    IN  SubSeq(sorted, 1, Min(max, Len(sorted)))

(***************************************************************************)
(* The patterns the handler tests on the utterance, on products and on     *)
(* basket lines (all case-insensitive).                                    *)
(***************************************************************************)
testI(s, ps) == IncludesAny(toLowerCase(s), ps)

\* /repuesto|disco|cuchilla/i
spareWords == {"repuesto", "disco", "cuchilla"}
\* /tefl[oó]n|ptfe|ptf/i
teflonWords == {"teflon", "teflón", "ptfe", "ptf"}
\* /un[ií]on|roscada/i
unionWords == {"union", "unión", "roscada"}
\* /cortatubo|corta tubo/i
cutterWords == {"cortatubo", "corta tubo"}

\* everything the handler derives from the utterance alone
understand(q) ==
    [ isEnd              |-> endIntent(q),
      isReplace          |-> replaceIntent(q),
      isAdd              |-> addIntent(q),
      userWantsRemoval   |-> removeIntent(q),
      wantsSpare         |-> testI(q, spareWords),
      wantsTeflon        |-> testI(q, teflonWords),
      wantUnion          |-> testI(q, unionWords),
      mentionsAlternates |-> testI(q, unionWords \cup teflonWords \cup spareWords),
      looksLikePVCLeak   |-> testI(q, {"fuga"}) /\ testI(q, {"pvc"}),
      hasTokens          |-> searchTokens(q) # {} ]

Understood == [q \in Utterances |-> understand(q)]
said(q) == IF q \in Utterances THEN Understood[q] ELSE understand(q)

\* `${p.name} ${p.description}` of a product, `${x.name} ${x.sku}` of a line
productText(p) == p.name \o " " \o p.description
lineText(x) == x.name \o " " \o x.sku

describe(s) ==
    [ spare  |-> testI(s, spareWords),
      teflon |-> testI(s, teflonWords),
      union  |-> testI(s, unionWords),
      cutter |-> testI(s, cutterWords) ]

\* the name a line of the proposal gives to its SKU
proposedName(sku) ==
    IF sku \in CatalogSkus THEN (CHOOSE p \in Range(Catalog) : p.sku = sku).name
    ELSE "Producto sugerido"

\* what the patterns find in the text of a catalog product, computed once per product
ProductsDescribed ==
    [sku \in CatalogSkus |-> describe(productText(CHOOSE p \in Range(Catalog) : p.sku = sku))]
aboutProduct(p) == ProductsDescribed[p.sku]

\* what the patterns find in the text of a basket line, computed once per name and SKU
LineNames == {proposedName(sku) : sku \in CatalogSkus \cup {InventedSku}}
LinesDescribed ==
    [name \in LineNames, sku \in CatalogSkus \cup {InventedSku} |->
        describe(lineText([name |-> name, sku |-> sku]))]
aboutLine(x) == LinesDescribed[x.name, x.sku]

(***************************************************************************)
(* Baskets, carts and the steps of the server-side validation/merge.       *)
(***************************************************************************)
hasSku(lines, sku) == \E i \in DOMAIN lines : lines[i].sku = sku
First(lines, P(_)) == lines[CHOOSE i \in DOMAIN lines : P(lines[i]) /\ \A j \in 1..(i - 1) : ~P(lines[j])]
Some(lines, P(_)) == \E i \in DOMAIN lines : P(lines[i])
MapSeq(lines, F(_)) == [i \in DOMAIN lines |-> F(lines[i])]

\* a basket line built from a product record
lineOf(src, qty, why) == [sku |-> src.sku, name |-> src.name, qty |-> qty, why |-> why]

RECURSIVE cartBySku(_)
\* the cart as a Map sku -> Math.max(1, Number(qty || 1)), in insertion order
cartBySku(cart) ==
    IF cart = <<>> THEN <<>>
    ELSE LET m   == cartBySku(SubSeq(cart, 1, Len(cart) - 1))
             ci  == cart[Len(cart)]
             qty == Max(1, IF ci.qty = 0 THEN 1 ELSE ci.qty)
         IN  IF hasSku(m, ci.sku)
             THEN [i \in DOMAIN m |-> IF m[i].sku = ci.sku THEN [m[i] EXCEPT !.qty = qty] ELSE m[i]]
             ELSE Append(m, [sku |-> ci.sku, qty |-> qty])

\* Map.prototype.get on a list of records keyed by sku
getSku(m, sku) == First(m, LAMBDA e : e.sku = sku)

\* a validation filter that lets every line through
filterKeepsAll(arr, candidateSkus) == arr

filterToCandidates(arr, candidateSkus) ==
    SelectSeq(arr, LAMBDA x : x.sku \in candidateSkus)

\* "prefer client qty if present"
preferClientQty(basket, cart) ==
    LET cbs == cartBySku(cart)
    IN  MapSeq(basket, LAMBDA it :
            [it EXCEPT !.qty = Max(1, IF hasSku(cbs, it.sku) THEN getSku(cbs, it.sku).qty
                                      ELSE it.qty)])

\* the loop "for (const [sku, qty] of cartBySku.entries())" that appends the cart's
\* SKUs missing from the basket and present among the candidates
appendCart(basket, cart, candidates, why) ==
    LET missing == SelectSeq(cartBySku(cart),
                             LAMBDA e : ~hasSku(basket, e.sku) /\ hasSku(candidates, e.sku))
    IN  basket \o MapSeq(missing, LAMBDA e : lineOf(getSku(candidates, e.sku), e.qty, why))

whyKept == "Conservado de tu selección previa."
whySpare == "Agregado a tu pedido como repuesto del cortatubo."
whyTeflon == "Agregado para sellar roscas (cinta de teflón)."
whyPicked == "Seleccionado según tu preferencia."
whyPrevious == "Pedido previo del cliente."

\* const pushIf = (predicate, why) => ...
pushIf(ensured, candidates, predicate(_), why) ==
    IF ~Some(candidates, predicate) THEN ensured
    ELSE LET pick == First(candidates, predicate)
         IN  IF hasSku(ensured, pick.sku) THEN ensured
             ELSE Append(ensured, lineOf(pick, 1, why))

TEFLON_SKUS == {"PTF-12"}

\* "Fallback TEFLÓN": the pinned SKU, fetched from the catalog
ensureTeflon(ensured, wantsTeflon, fetched) ==
    IF wantsTeflon /\ ~Some(ensured, LAMBDA x : aboutLine(x).teflon)
    THEN LET tfetch == IF fetched THEN selectIn(TEFLON_SKUS) ELSE <<>>
         IN  IF tfetch = <<>> THEN ensured
             ELSE LET t == IF Some(tfetch, LAMBDA p : p.stock > 0)
                           THEN First(tfetch, LAMBDA p : p.stock > 0) ELSE tfetch[1]
                  IN  IF hasSku(ensured, t.sku) THEN ensured
                      ELSE Append(ensured, lineOf(t, 1, whyTeflon))
    ELSE ensured

\* "Case-1 assist": REP-CORTA-001 when the cart has CORTA-COBRE-001
ensureSpare(ensured, wantsSpare, cart, candidates, fetched) ==
    IF wantsSpare /\ hasSku(cartBySku(cart), "CORTA-COBRE-001")
       /\ ~hasSku(ensured, "REP-CORTA-001")
    THEN LET rep == IF hasSku(candidates, "REP-CORTA-001")
                    THEN <<getSku(candidates, "REP-CORTA-001")>>
                    ELSE IF fetched THEN selectIn({"REP-CORTA-001"}) ELSE <<>>
         IN  IF rep = <<>> THEN ensured ELSE Append(ensured, lineOf(rep[1], 1, whySpare))
    ELSE ensured

\* the ADD PATH up to its two pushIf calls: ensured before the pinned lookups
ensuredFromCandidates(q, basket, cart, candidates) ==
    LET wantsSpare  == said(q).wantsSpare
        wantsTeflon == said(q).wantsTeflon
        kept    == filterToCandidates(basket, Skus(candidates))
        withCart == appendCart(kept, cart, candidates, whyKept)
        spare   == IF wantsSpare
                   THEN pushIf(withCart, candidates,
                               LAMBDA p : aboutProduct(p).spare
                                          /\ aboutProduct(p).cutter, whySpare)
                   ELSE withCart
        teflon  == IF wantsTeflon
                   THEN pushIf(spare, candidates,
                               LAMBDA p : aboutProduct(p).teflon, whyTeflon)
                   ELSE spare
    IN  teflon

\* an ADD PATH without its ensure-rules: the proposal's lines and the cart only
addPathWithoutEnsure(q, basket, cart, candidates, fetched) ==
    appendCart(filterToCandidates(basket, Skus(candidates)), cart, candidates, whyKept)

\* "ADD PATH: keep cart and append requested accessory(s)"
addPath(q, basket, cart, candidates, fetched) ==
    ensureSpare(ensureTeflon(ensuredFromCandidates(q, basket, cart, candidates),
                             said(q).wantsTeflon, fetched),
                said(q).wantsSpare, cart, candidates, fetched)

picksAsLines(q, candidates) ==
    MapSeq(pickByKeywords(q, normalized(q), candidates, 3), LAMBDA src : lineOf(src, 1, whyPicked))

shouldForceReplace(q, basket, cart) ==
    /\ ~said(q).isAdd
    /\ \/ said(q).isReplace
       \/ /\ said(q).mentionsAlternates
          /\ Len(basket) > 0
          /\ \A i \in DOMAIN basket : hasSku(cartBySku(cart), basket[i].sku)

\* "STRONG REPLACE path": the body of if (shouldForceReplace)
forceReplace(q, basket, cart, candidates) ==
    LET cbs     == cartBySku(cart)
        dropped == SelectSeq(basket, LAMBDA x : ~hasSku(cbs, x.sku))
        picks   == picksAsLines(q, candidates)
        lacks   == \/ said(q).wantUnion /\ ~Some(dropped, LAMBDA x : aboutLine(x).union)
                   \/ said(q).wantsTeflon /\ ~Some(dropped, LAMBDA x : aboutLine(x).teflon)
                   \/ said(q).wantsSpare /\ ~Some(dropped, LAMBDA x : aboutLine(x).spare)
        rebuilt == IF Len(dropped) = 0 THEN picks
                   ELSE IF said(q).mentionsAlternates /\ lacks
                   THEN dropped \o SelectSeq(picks, LAMBDA s : ~hasSku(dropped, s.sku))
                   ELSE dropped
    IN  MapSeq(rebuilt, LAMBDA it :
            IF hasSku(cbs, it.sku) THEN [it EXCEPT !.qty = Max(1, getSku(cbs, it.sku).qty)]
            ELSE it)

\* "EMPTY BASKET HANDLING"
emptyBasketHandling(q, basket, cart, candidates) ==
    IF Len(basket) # 0 THEN basket
    ELSE IF said(q).isReplace /\ ~said(q).isAdd THEN picksAsLines(q, candidates)
    ELSE IF ~said(q).userWantsRemoval /\ Len(cartBySku(cart)) > 0
    THEN appendCart(<<>>, cart, candidates, whyKept)
    ELSE basket

\* a normal turn that re-adds nothing
readdNothing(q, basket, cart, candidates) == basket

\* "In NORMAL turns, if model omitted cart items, re-add them"
readdCart(q, basket, cart, candidates) ==
    IF ~said(q).isReplace /\ ~said(q).userWantsRemoval
    THEN appendCart(basket, cart, candidates, whyPrevious)
    ELSE basket

\* plan.basket after filterToCandidates and "prefer client qty if present"
validBasket(cart, candidates, proposed) ==
    preferClientQty(filterToCandidates(proposed, Skus(candidates)), cart)

replyEnd == "Perfecto. Pulsa **Confirmar e imprimir** para terminar. ¡Éxitos con tu proyecto!"
replyFallback == "Tengo una sugerencia lista. ¿Deseas confirmar ahora?"
replyDefault == "Listo. ¿Algo más?"
prefixOutOfStock == "El **cople recto 1/2\"** está agotado. "
\* plan.reply = `El **cople recto 1/2"** está agotado. ${plan.reply}`
replyOutOfStock == prefixOutOfStock \o replyDefault

\* /agotad/i.test(plan.reply), for the replies a plan may carry
Replies == {replyEnd, replyFallback, replyDefault, replyOutOfStock}
SaysOutOfStock == [r \in Replies |-> testI(r, {"agotad"})]

\* "PVC-leak OOS narrative nudge": does the handler prepend the out-of-stock warning?
nudges(q, basket, reply, fetched) ==
    /\ said(q).looksLikePVCLeak
    /\ LET cople == IF fetched THEN selectIn({"PVC-CPL-050"}) ELSE <<>>
       IN  cople # <<>> /\ cople[1].stock = 0
    /\ hasSku(basket, "PVC-UNION-050")
    /\ ~SaysOutOfStock[reply]


(***************************************************************************)
(* The inputs of a turn.                                                   *)
(***************************************************************************)
\* the SKUs a client cart may hold
CartSkus == {"CORTA-COBRE-001", "PVC-UNION-050", "PTF-12", "PVC-CPL-050"}

\* the client carts: any set of cart SKUs, all lines with quantity 1 or all with MaxQty
Carts ==
    UNION { { MapSeq(selectIn(S), LAMBDA p : [sku |-> p.sku, qty |-> n]) :
              n \in {1, MaxQty} } : S \in SUBSET CartSkus }

\* the SKUs the search queries may return, besides the cart's own
SearchSkus == {"REP-CORTA-001", "PVC-UNION-050", "PVC-CPL-050"}

\* the queries of the candidate search, in the order the handler issues them ("syns"
\* is the synonym lookup: the synonyms query and the products query for its SKUs)
Queries == <<"p1", "p2", "p3", "syns", "cartProducts">>

\* what the search returns: the rows found by the phrase, token and synonym queries
\* together, and the query that came back with an error, if one did (a failed
\* synonym query only leaves rows out of what is found)
SearchOutcomes ==
    {[found |-> S, failed |-> x] : S \in SUBSET SearchSkus, x \in {"none", "cartProducts"}}
    \cup {[found |-> {}, failed |-> x] : x \in Range(Queries) \ {"cartProducts"}}

\* the SKUs and the quantities a proposal may name
ProposalSkus == {"REP-CORTA-001", "PVC-UNION-050", InventedSku}
ProposedQtys == {0, MaxQty}

proposedLine(sku, qty) ==
    [sku |-> sku, name |-> proposedName(sku), qty |-> qty, why |-> "Sugerido."]

RECURSIVE SeqsUpTo(_, _)
\* the sequences over S of length <= n
SeqsUpTo(S, n) ==
    IF n = 0 THEN {<<>>}
    ELSE LET shorter == SeqsUpTo(S, n - 1)
         IN  shorter \cup {Append(t, x) : t \in {u \in shorter : Len(u) = n - 1}, x \in S}

ProposedBaskets ==
    UNION { { MapSeq(skus, LAMBDA sku : proposedLine(sku, qty)) : qty \in ProposedQtys }
            : skus \in SeqsUpTo(ProposalSkus, MaxLines) }

ProposedUpsells ==
    { <<>>, <<proposedLine("PTF-12", 1), proposedLine(InventedSku, 1)>> }

\* what generateContent gives: it throws, or its text is no JSON, or it is a plan
Proposals ==
    {[kind |-> "throws", basket |-> <<>>, upsell |-> <<>>],
     [kind |-> "malformed", basket |-> <<>>, upsell |-> <<>>]}
    \cup {[kind |-> "json", basket |-> b, upsell |-> u] :
            b \in ProposedBaskets, u \in ProposedUpsells}

NoProposal == [kind |-> "none", basket |-> <<>>, upsell |-> <<>>]
NoResponse == [status |-> 0, basket |-> <<>>, upsell |-> <<>>, reply |-> ""]

\* res.status(500).json({ error }): an error and no plan
errorResponse == [NoResponse EXCEPT !.status = 500]

\* a handler without the end intent shortcut
noEndShortcut(u) == FALSE

\* "end intent shortcut": does the handler answer before the generative call?
endShortcut(u) == said(u).isEnd

\* the answer of the end intent shortcut
endResponse == [status |-> 200, basket |-> <<>>, upsell |-> <<>>, reply |-> replyEnd]

\* the answer if JSON.parse were not guarded and its exception reached the outer catch
parseFailureUncaught == errorResponse

\* the answer when JSON.parse throws
parseFailure == [status |-> 200, basket |-> <<>>, upsell |-> <<>>, reply |-> replyFallback]

\* the answer if the outer catch degraded to the fallback plan
agentFailureDegrades ==
    [status |-> 200, basket |-> <<>>, upsell |-> <<>>, reply |-> replyFallback]

\* the answer of the outer catch
agentFailure == errorResponse

(***************************************************************************)
(* The handler as a state machine: a request is received, the candidate    *)
(* search runs, then the generative call and the validation/merge.         *)
(***************************************************************************)
VARIABLES
    pc,          \* "idle", "search", "generate" or "done"
    req,         \* req.body: the utterance q and the client cart
    bySku,       \* the candidates, in the order the Map bySku holds them
    failed,      \* the catalog query that returned an error, or "none"
    calls,       \* the external calls made for this request, in order
    proposal,    \* what the generative call gave
    fetchOk,     \* whether the direct catalog lookups of the merge returned rows
    res,         \* the response: its status and, when 200, the plan and the reply
    plan,        \* Home: the plan shown in the basket pane (set is FALSE for null)
    chatKey,     \* Home: the key that remounts ChatPane
    messages,    \* ChatPane: the chat log
    input,       \* ChatPane: the text of the textarea
    pending,     \* ChatPane: a request is awaited
    listening,   \* ChatPane: the microphone is on
    chatCart,    \* ChatPane: cart, the client-held cart sent with each request
    lastSent,    \* ChatPane: the text of the last request
    rec,         \* the SpeechRecognition started last, with what its handlers captured
    inflight     \* the requests awaiting their response, each with its ChatPane

\* the state of the handler and the state of the kiosk page
handlerVars == <<pc, req, bySku, failed, calls, proposal, fetchOk, res>>
kioskVars == <<plan, chatKey, messages, input, pending, listening, chatCart, lastSent,
               rec, inflight>>
vars == <<pc, req, bySku, failed, calls, proposal, fetchOk, res,
          plan, chatKey, messages, input, pending, listening, chatCart, lastSent,
          rec, inflight>>

\* useState(null) of Home
NoPlan == [set |-> FALSE, basket |-> <<>>]

\* the first message of a mounted ChatPane (its text abridged)
greeting == [role |-> "assistant", text |-> "Hola, soy tu asistente de ferreteria."]

\* no recognition was started
NoRec == [on |-> FALSE, owner |-> 0, finalText |-> "", input |-> "", history |-> 0,
          cart |-> <<>>, lastSent |-> ""]

\* the page as it is first rendered
KioskInit ==
    /\ plan = NoPlan
    /\ chatKey = 0
    /\ messages = <<greeting>>
    /\ input = ""
    /\ pending = FALSE
    /\ listening = FALSE
    /\ chatCart = <<>>
    /\ lastSent = ""
    /\ rec = NoRec
    /\ inflight = <<>>

NoRequest == [q |-> "", cart |-> <<>>]

Init ==
    /\ pc = "idle"
    /\ req = NoRequest
    /\ bySku = <<>>
    /\ failed = "none"
    /\ calls = <<>>
    /\ proposal = NoProposal
    /\ fetchOk = TRUE
    /\ res = NoResponse
    /\ KioskInit

\* a POST with a non-empty q reaches the try block
Receive ==
    /\ pc = "idle"
    /\ \E u \in Utterances, c \in Carts : req' = [q |-> u, cart |-> c]
    /\ pc' = "search"
    /\ UNCHANGED <<bySku, failed, calls, proposal, fetchOk, res>>
    /\ UNCHANGED kioskVars

\* the queries the handler issues for a request when none fails
queriesIssued(u, c) ==
    SelectSeq(Queries, LAMBDA x :
        CASE x = "p3" -> said(u).hasTokens
          [] x = "cartProducts" -> c # <<>>
          [] OTHER -> TRUE)

\* the queries made up to and including x
upTo(issued, x) ==
    SubSeq(issued, 1, CHOOSE i \in DOMAIN issued : issued[i] = x)

\* bySku after the search: the rows found, then the cart's rows not found before
candidatesOf(c, found, cartRows) ==
    LET rows == selectIn(found)
    IN  rows \o SelectSeq(IF cartRows THEN selectIn(Skus(c)) ELSE <<>>,
                          LAMBDA p : ~hasSku(rows, p.sku))

\* a phrase or token query returns an error: 500
SearchFails ==
    /\ pc = "search"
    /\ \E o \in SearchOutcomes :
        /\ o.failed \in {"p1", "p2", "p3"}
        /\ o.failed \in Range(queriesIssued(req.q, req.cart))
        /\ failed' = o.failed
        /\ calls' = upTo(queriesIssued(req.q, req.cart), o.failed)
    /\ res' = errorResponse
    /\ pc' = "done"
    /\ UNCHANGED <<req, bySku, proposal, fetchOk>>
    /\ UNCHANGED kioskVars

\* the search completes (an error of the synonym or cart queries is not looked at)
SearchDone ==
    /\ pc = "search"
    /\ \E o \in SearchOutcomes :
        /\ o.failed \notin {"p1", "p2", "p3"}
        /\ o.failed \in Range(queriesIssued(req.q, req.cart)) \cup {"none"}
        /\ failed' = o.failed
        /\ calls' = queriesIssued(req.q, req.cart)
        /\ bySku' = candidatesOf(req.cart, o.found, o.failed # "cartProducts")
    /\ IF endShortcut(req.q)
       THEN /\ res' = endResponse
            /\ pc' = "done"
       ELSE /\ res' = res
            /\ pc' = "generate"
    /\ UNCHANGED <<req, proposal, fetchOk>>
    /\ UNCHANGED kioskVars

\* generateContent throws: the outer catch answers 500
GenerateThrows ==
    /\ pc = "generate"
    /\ proposal' = [kind |-> "throws", basket |-> <<>>, upsell |-> <<>>]
    /\ calls' = Append(calls, "generateContent")
    /\ res' = agentFailure
    /\ pc' = "done"
    /\ UNCHANGED <<req, bySku, failed, fetchOk>>
    /\ UNCHANGED kioskVars

\* JSON.parse throws: the fixed fallback plan
ParseFails ==
    /\ pc = "generate"
    /\ proposal' = [kind |-> "malformed", basket |-> <<>>, upsell |-> <<>>]
    /\ calls' = Append(calls, "generateContent")
    /\ res' = parseFailure
    /\ pc' = "done"
    /\ UNCHANGED <<req, bySku, failed, fetchOk>>
    /\ UNCHANGED kioskVars

\* the direct catalog lookups the merge makes (tfetch, repFetch, cople), in order
lookupsIssued(u, c, cands, proposed) ==
    LET ensured == ensuredFromCandidates(u, validBasket(c, cands, proposed), c, cands)
    IN  SelectSeq(<<"tfetch", "repFetch", "cople">>, LAMBDA x :
            CASE x = "tfetch" ->
                    /\ said(u).isAdd /\ said(u).wantsTeflon
                    /\ ~Some(ensured, LAMBDA l : aboutLine(l).teflon)
              [] x = "repFetch" ->
                    /\ said(u).isAdd /\ said(u).wantsSpare
                    /\ hasSku(cartBySku(c), "CORTA-COBRE-001")
                    /\ ~hasSku(ensured, "REP-CORTA-001")
                    /\ ~hasSku(cands, "REP-CORTA-001")
              [] OTHER -> said(u).looksLikePVCLeak)

\* the proposal parses: the validation/merge, one step after the other, and the answer
Reconcile ==
    /\ pc = "generate"
    /\ \E p \in Proposals, f \in BOOLEAN :
        /\ p.kind = "json"
        /\ \E lookups \in {lookupsIssued(req.q, req.cart, bySku, p.basket)} :
            /\ f \/ lookups # <<>>
            /\ calls' = calls \o <<"generateContent">> \o lookups
        /\ proposal' = p
        /\ fetchOk' = f
        /\ \E valid \in {validBasket(req.cart, bySku, p.basket)} :
           \E added \in {IF said(req.q).isAdd
                         THEN addPath(req.q, valid, req.cart, bySku, f) ELSE valid} :
           \E replaced \in {IF shouldForceReplace(req.q, added, req.cart)
                            THEN forceReplace(req.q, added, req.cart, bySku) ELSE added} :
           \E filled \in {emptyBasketHandling(req.q, replaced, req.cart, bySku)} :
           \E basket \in {readdCart(req.q, filled, req.cart, bySku)} :
              res' = [status |-> 200,
                      basket |-> basket,
                      upsell |-> filterToCandidates(p.upsell, Skus(bySku)),
                      reply  |-> IF nudges(req.q, basket, replyDefault, f)
                                 THEN replyOutOfStock ELSE replyDefault]
    /\ pc' = "done"
    /\ UNCHANGED <<req, bySku, failed>>
    /\ UNCHANGED kioskVars

\* the response is sent; nothing of the request is kept for the next one
Respond ==
    /\ pc = "done"
    /\ pc' = "idle"
    /\ req' = NoRequest
    /\ bySku' = <<>>
    /\ failed' = "none"
    /\ calls' = <<>>
    /\ proposal' = NoProposal
    /\ fetchOk' = TRUE
    /\ res' = NoResponse
    /\ UNCHANGED kioskVars

Next ==
    \/ Receive
    \/ SearchFails
    \/ SearchDone
    \/ GenerateThrows
    \/ ParseFails
    \/ Reconcile
    \/ Respond

Spec == Init /\ [][Next]_vars

(***************************************************************************)
(* The keyword picker and the upsell rules (src/lib/agent.ts) as functions *)
(* applied to drawn inputs: a second specification over the same state.    *)
(***************************************************************************)
\* pickByKeywords(q, qNorm, candidates, max = 3): the largest max of a call
MaxPicks == 3
\* largest number of SKUs in the basket handed to suggestUpsell
MaxBasketSkus == 3

RECURSIVE Arrangements(_)
\* the lists that hold every element of S once
Arrangements(S) ==
    IF S = {} THEN {<<>>}
    ELSE UNION { {<<x>> \o t : t \in Arrangements(S \ {x})} : x \in S }

\* the candidate lists: any products of the catalog, in any order
CandidateLists == UNION { Arrangements(S) : S \in SUBSET Range(Catalog) }

\* the SKUs of the upsell rules, and one SKU of paint
UpsellSkus ==
    {"PVC-GLUE-240", "PVC-CPL-050", "PTF-12", "WR-8IN", "MASK-TAPE-36", "PAINT-WHITE-1L"}

\* String.prototype.startsWith
startsWith(s, p) == Len(s) >= Len(p) /\ SubSeq(s, 1, Len(p)) = p
IsPaint == [k \in UpsellSkus |-> startsWith(k, "PAINT-")]

\* the rule table: the suggestions pushed to ups, in the order of the rules
upsellRules(basketSkus) ==
    LET s == Range(basketSkus)
    IN  (IF "PVC-GLUE-240" \in s \/ "PVC-CPL-050" \in s
         THEN (IF "PTF-12" \notin s
               THEN <<[sku |-> "PTF-12", name |-> "Cinta de teflón 1/2\"x12m"]>> ELSE <<>>)
              \o (IF "WR-8IN" \notin s
                  THEN <<[sku |-> "WR-8IN", name |-> "Llave ajustable 8\""]>> ELSE <<>>)
         ELSE <<>>)
        \o (IF "MASK-TAPE-36" \notin s /\ \E k \in s : IsPaint[k]
            THEN <<[sku |-> "MASK-TAPE-36", name |-> "Cinta masking 36mm"]>> ELSE <<>>)

\* a suggestUpsell that returns ups without the cap
suggestWithoutCap(basketSkus) == upsellRules(basketSkus)

suggestUpsell(basketSkus) ==
    LET ups == upsellRules(basketSkus)
    IN  SubSeq(ups, 1, Min(2, Len(ups)))

\* the inputs of a call of the picker, and of a call of suggestUpsell
PickInputs == {[q |-> u, cart |-> <<>>, max |-> m] : u \in Utterances, m \in 1..MaxPicks}
UpsellInputs ==
    {[q |-> "", cart |-> MapSeq(skus, LAMBDA k : [sku |-> k, qty |-> 1]), max |-> 0] :
        skus \in SeqsUpTo(UpsellSkus, MaxBasketSkus)}

InitFn ==
    /\ pc = "call"
    /\ \/ req \in PickInputs /\ bySku \in CandidateLists
       \/ req \in UpsellInputs /\ bySku = <<>>
    /\ failed = "none"
    /\ calls = <<>>
    /\ proposal = NoProposal
    /\ fetchOk = TRUE
    /\ res = NoResponse
    /\ KioskInit

\* pickByKeywords(q, qNorm, candidates, max)
Pick ==
    /\ pc = "call" /\ req.q # ""
    /\ res' = [NoResponse EXCEPT
                  !.basket = pickByKeywords(req.q, normalized(req.q), bySku, req.max)]
    /\ pc' = "picked"
    /\ UNCHANGED <<req, bySku, failed, calls, proposal, fetchOk>>
    /\ UNCHANGED kioskVars

\* suggestUpsell(basketSkus)
Suggest ==
    /\ pc = "call" /\ req.q = ""
    /\ \E basketSkus \in {MapSeq(req.cart, LAMBDA x : x.sku)} :
          res' = [NoResponse EXCEPT !.upsell = suggestUpsell(basketSkus)]
    /\ pc' = "suggested"
    /\ UNCHANGED <<req, bySku, failed, calls, proposal, fetchOk>>
    /\ UNCHANGED kioskVars

NextFn ==
    \/ Pick
    \/ Suggest

SpecFn == InitFn /\ [][NextFn]_vars

(***************************************************************************)
(* The kiosk page: Home (index.tsx) with its ChatPane and BasketPane, as a *)
(* third specification. Each event handler is one action; a request is     *)
(* answered by the handler above in one step, and the rest of sendToAgent  *)
(* runs with the answer.                                                   *)
(***************************************************************************)
\* the resets of a run, and the messages a chat log may hold when a user message is
\* added to it (each reset takes one turn off)
MaxMessages == 4
MaxResets == 1

\* what a customer types and what the recognizer hears
TypedTexts == {"a", "no gracias ", "Tengo fuga en un tubo de PVC de media"}
SpokenTexts == {"sí, dame el repuesto"}

\* String.trim of the texts of the page, computed once
Trimmed == [t \in TypedTexts \cup SpokenTexts \cup {""} |-> trim(t)]

\* what a request of the page meets: fetch rejects, the handler throws and answers
\* 500, the text of the generative call is no JSON, or it is a plan
KioskOutcomes ==
    {[kind |-> k, basket |-> <<>>, upsell |-> <<>>] :
        k \in {"network", "throws", "malformed", "json"}}
    \cup {[kind |-> "json", basket |-> <<proposedLine("PVC-UNION-050", MaxQty)>>,
           upsell |-> <<>>]}

\* the guards of sendToAgent, with the pending and lastSent its closure holds
sends(userText, isPending, last) ==
    /\ ~isPending
    /\ userText \notin {t \in Range(Trimmed) : Len(t) < 2}
    /\ userText # last

\* the body of fetch, with the ChatPane that sent it; of the history, the number of
\* messages it holds
request(owner, userText, history, sentCart) ==
    [owner |-> owner, q |-> userText, history |-> history, cart |-> sentCart]

\* the answer of the handler to a request whose proposal parsed (server-side
\* validation/merge, its direct lookups returning rows)
reconciled(u, c, cands, p) ==
    UNION { UNION { UNION { UNION { UNION {
        { [status |-> 200, basket |-> basket,
           upsell |-> filterToCandidates(p.upsell, Skus(cands)),
           reply  |-> IF nudges(u, basket, replyDefault, TRUE)
                      THEN replyOutOfStock ELSE replyDefault] }
        : basket \in {readdCart(u, filled, c, cands)} }
        : filled \in {emptyBasketHandling(u, replaced, c, cands)} }
        : replaced \in {IF shouldForceReplace(u, added, c)
                        THEN forceReplace(u, added, c, cands) ELSE added} }
        : added \in {IF said(u).isAdd THEN addPath(u, valid, c, cands, TRUE) ELSE valid} }
        : valid \in {validBasket(c, cands, p.basket)} }

\* what fetch gives for a request: status 0 when it rejects, else the handler's answer
answers(u, c, cands, o) ==
    IF o.kind = "network" THEN {NoResponse}
    ELSE IF o.kind = "throws" THEN {agentFailure}
    ELSE IF endShortcut(u) THEN {endResponse}
    ELSE IF o.kind = "malformed" THEN {parseFailure}
    ELSE reconciled(u, c, cands, o)

\* the assistant message sendToAgent appends for an answer
answerText(ans) ==
    IF ans.status = 0 THEN "Error de red. Intenta de nuevo."
    ELSE IF ans.status # 200 THEN "Hubo un problema. ¿Puedes repetirlo?"
    ELSE ans.reply

\* setCart(plan.basket.map(...))
cartOf(basket) == MapSeq(basket, LAMBDA b : [sku |-> b.sku, qty |-> Max(1, b.qty)])

\* the stock of a basket line
stockOf(sku) ==
    IF sku \in CatalogSkus THEN (CHOOSE p \in Range(Catalog) : p.sku = sku).stock ELSE 0

\* onChange of the textarea
Types ==
    /\ \E t \in TypedTexts : input # t /\ input' = t
    /\ UNCHANGED <<plan, chatKey, messages, pending, listening, chatCart, lastSent,
                   rec, inflight>>
    /\ UNCHANGED handlerVars

\* handleSend (the Enviar button, or Ctrl/Cmd+Enter in the textarea), with the
\* sendToAgent of the render that is on screen
HandleSend ==
    /\ Len(messages) + 2 * chatKey < MaxMessages
    /\ \E text \in {Trimmed[input]} :
        /\ text # ""
        /\ messages' = Append(messages, [role |-> "user", text |-> text])
        /\ input' = ""
        /\ IF sends(text, pending, lastSent)
           THEN /\ lastSent' = text
                /\ pending' = TRUE
                /\ inflight' = Append(inflight, request(chatKey, text, Len(messages), chatCart))
           ELSE UNCHANGED <<lastSent, pending, inflight>>
    /\ UNCHANGED <<plan, chatKey, listening, chatCart, rec>>
    /\ UNCHANGED handlerVars

\* startListening: the handlers of the new recognition close over the state of the
\* render that created them (pending is false in it)
StartListening ==
    /\ ~listening /\ ~pending
    /\ rec' = [on |-> TRUE, owner |-> chatKey, finalText |-> "", input |-> input,
               history |-> Len(messages), cart |-> chatCart, lastSent |-> lastSent]
    /\ listening' = TRUE
    /\ UNCHANGED <<plan, chatKey, messages, input, pending, chatCart, lastSent,
                   inflight>>
    /\ UNCHANGED handlerVars

\* rec.onresult, with a final transcript
Hears ==
    /\ rec.on /\ rec.finalText = ""
    /\ \E t \in SpokenTexts :
        /\ rec' = [rec EXCEPT !.finalText = t]
        /\ input' = IF rec.owner = chatKey THEN t ELSE input
    /\ UNCHANGED <<plan, chatKey, messages, pending, listening, chatCart, lastSent,
                   inflight>>
    /\ UNCHANGED handlerVars

\* rec.onend: the utterance is logged and sent with the sendToAgent of the render
\* that started the recognition; the setters of an unmounted ChatPane do nothing
RecEnds ==
    /\ rec.on
    /\ rec' = NoRec
    /\ \E mounted \in {rec.owner = chatKey} :
       \E utterance \in {Trimmed[IF rec.finalText # "" THEN rec.finalText ELSE rec.input]} :
        /\ listening' = IF mounted THEN FALSE ELSE listening
        /\ IF utterance = ""
           THEN UNCHANGED <<messages, input, lastSent, pending, inflight>>
           ELSE /\ Len(messages) + 2 * chatKey < MaxMessages
                /\ messages' = IF mounted
                               THEN Append(messages, [role |-> "user", text |-> utterance])
                               ELSE messages
                /\ input' = IF mounted THEN "" ELSE input
                /\ IF sends(utterance, FALSE, rec.lastSent)
                   THEN /\ lastSent' = IF mounted THEN utterance ELSE lastSent
                        /\ pending' = IF mounted THEN TRUE ELSE pending
                        /\ inflight' = Append(inflight,
                               request(rec.owner, utterance, rec.history, rec.cart))
                   ELSE UNCHANGED <<lastSent, pending, inflight>>
    /\ UNCHANGED <<plan, chatKey, chatCart>>
    /\ UNCHANGED handlerVars

\* a request is answered (its search finds PVC-UNION-050 and the cart's products) and
\* sendToAgent goes on after its awaits: onResult sets the plan of Home; the setters
\* of an unmounted ChatPane do nothing
Completes ==
    /\ \E i \in DOMAIN inflight, o \in KioskOutcomes :
       \E r \in {inflight[i]} :
       \E cands \in {candidatesOf(r.cart, {"PVC-UNION-050"}, TRUE)} :
       \E ans \in answers(r.q, r.cart, cands, o) :
       \E mounted \in {r.owner = chatKey} :
        /\ inflight' = SubSeq(inflight, 1, i - 1) \o SubSeq(inflight, i + 1, Len(inflight))
        /\ plan' = IF ans.status = 200 THEN [set |-> TRUE, basket |-> ans.basket] ELSE plan
        /\ chatCart' = IF mounted /\ ans.status = 200 THEN cartOf(ans.basket) ELSE chatCart
        /\ messages' = IF mounted
                       THEN Append(messages, [role |-> "assistant", text |-> answerText(ans)])
                       ELSE messages
        /\ pending' = IF mounted THEN FALSE ELSE pending
    /\ UNCHANGED <<chatKey, input, listening, lastSent, rec>>
    /\ UNCHANGED handlerVars

\* handleInc / handleDec of BasketPane, then handleQtyChange of Home
ChangesQty ==
    /\ plan.set
    /\ \E i \in DOMAIN plan.basket, step \in {-1, 1} :
       \E current \in {Max(1, plan.basket[i].qty)} :
       \E qty \in {IF step = 1
                   THEN Min(current + 1, Max(1, stockOf(plan.basket[i].sku)))
                   ELSE Max(1, current - 1)} :
        /\ IF step = 1
           THEN current < Max(1, stockOf(plan.basket[i].sku)) /\ current <= MaxQty
           ELSE current > 1
        /\ plan' = [plan EXCEPT !.basket =
                      MapSeq(plan.basket, LAMBDA it :
                          IF it.sku = plan.basket[i].sku
                          THEN [it EXCEPT !.qty = Max(1, qty)] ELSE it)]
    /\ UNCHANGED <<chatKey, messages, input, pending, listening, chatCart, lastSent,
                   rec, inflight>>
    /\ UNCHANGED handlerVars

\* handleReset: the plan is cleared and ChatPane is remounted with its initial state
handleReset ==
    /\ plan' = NoPlan
    /\ chatKey' = chatKey + 1
    /\ messages' = <<greeting>>
    /\ input' = ""
    /\ pending' = FALSE
    /\ listening' = FALSE
    /\ chatCart' = <<>>
    /\ lastSent' = ""

\* the "Nueva consulta" button
NewQuery ==
    /\ chatKey < MaxResets
    /\ handleReset
    /\ UNCHANGED <<rec, inflight>>
    /\ UNCHANGED handlerVars

\* the items printReceiptAndReset prints for a plan
ticketItems(p) == IF p.set THEN p.basket ELSE <<>>

\* the "Confirmar e imprimir" button: printReceiptAndReset prints the ticket and
\* resets; with no item, or when the pop-up is blocked, it alerts and changes nothing
Confirm ==
    /\ chatKey < MaxResets
    /\ \E items \in {ticketItems(plan)} :
        items # <<>>
    /\ handleReset
    /\ UNCHANGED <<rec, inflight>>
    /\ UNCHANGED handlerVars

NextKiosk ==
    \/ Types
    \/ HandleSend
    \/ StartListening
    \/ Hears
    \/ RecEnds
    \/ Completes
    \/ ChangesQty
    \/ NewQuery
    \/ Confirm

SpecKiosk == Init /\ [][NextKiosk]_vars

(***************************************************************************)
(* Properties of a turn, read off the state when the handler has answered. *)
(***************************************************************************)
\* the handler has answered 200, with a plan
Answered == pc = "done" /\ res.status = 200

\* the plan was reconciled from a proposal that parsed
Reconciled == Answered /\ proposal.kind = "json"

\* candidateSkus of the turn, and the SKUs and quantities of the client cart
CandidateSet == Skus(bySku)
CartSet == Skus(cartBySku(req.cart))
cartQty(sku) == getSku(cartBySku(req.cart), sku).qty

\* plan.basket of the proposal once filtered and given the client quantities
Validated == validBasket(req.cart, bySku, proposal.basket)

\* how often generateContent was called in the turn
GenerativeCalls == Cardinality({i \in DOMAIN calls : calls[i] = "generateContent"})

\* C1 as stated: in every returned plan, every line of plan.basket and of plan.upsell
\* has a SKU of the turn's candidate set, the lines of the Add-path ensure-rules
\* included.
C1_EveryLineIsACandidate ==
    Answered => (Skus(res.basket) \cup Skus(res.upsell)) \subseteq CandidateSet

\* C1 amended: in every returned plan every upsell line has a SKU of the candidate
\* set, and every basket line has a SKU of the candidate set or is, on an Add turn,
\* a pinned catalog product the handler fetched directly: PTF-12 when the utterance
\* names teflon, REP-CORTA-001 when it names a spare and the cart holds
\* CORTA-COBRE-001.
C1_LinesAreCandidatesOrPinned ==
    Answered =>
        /\ Skus(res.upsell) \subseteq CandidateSet
        /\ \A sku \in Skus(res.basket) \ CandidateSet :
              /\ said(req.q).isAdd /\ fetchOk /\ sku \in CatalogSkus
              /\ \/ sku = "PTF-12" /\ said(req.q).wantsTeflon
                 \/ /\ sku = "REP-CORTA-001" /\ said(req.q).wantsSpare
                    /\ "CORTA-COBRE-001" \in CartSet

\* a plan whose proposal named an invented SKU (filtered out) and whose basket holds
\* the pinned teflon that the candidate set lacks
C1_PinnedTeflonReturned ==
    /\ Answered /\ CandidateSet # {}
    /\ InventedSku \in Skus(proposal.basket) /\ InventedSku \in Skus(proposal.upsell)
    /\ "PTF-12" \in Skus(res.basket) \ CandidateSet

\* C2 as stated: every line of the final basket whose SKU is in the client cart has
\* the cart's quantity for that SKU.
C2_CartQuantityWins ==
    Answered =>
        \A i \in DOMAIN res.basket :
            res.basket[i].sku \in CartSet => res.basket[i].qty = cartQty(res.basket[i].sku)

\* C3 as stated: the final basket holds at most one line per SKU.
C3_OneLinePerSku ==
    Answered =>
        \A i, j \in DOMAIN res.basket :
            res.basket[i].sku = res.basket[j].sku => i = j

\* C4: when the utterance is classified End, the returned plan has an empty basket
\* and an empty upsell, whatever the cart and the candidate set are.
C4_EndReturnsEmptyPlan ==
    (Answered /\ said(req.q).isEnd) => (res.basket = <<>> /\ res.upsell = <<>>)

\* an End turn answered with a cart and candidates at hand
C4_EndTurnWithCart ==
    Answered /\ said(req.q).isEnd /\ req.cart # <<>> /\ CandidateSet # {}

\* C5 as stated: when force-replace applies (not Add, and Replace or alternates named
\* while the proposal's non-empty basket lies within the previous cart), no SKU of
\* the previous cart is in the final basket.
C5_ForceReplaceDropsCart ==
    (Reconciled /\ shouldForceReplace(req.q, Validated, req.cart)) =>
        Skus(res.basket) \cap CartSet = {}

\* the precondition of C6: an Add turn that names a spare, CORTA-COBRE-001 in the
\* cart, REP-CORTA-001 a candidate and not in the cart
SpareAsked ==
    /\ said(req.q).isAdd /\ said(req.q).wantsSpare
    /\ "CORTA-COBRE-001" \in CartSet
    /\ "REP-CORTA-001" \in CandidateSet \ CartSet

\* C6 as stated: on such a turn, for every proposal, the final basket holds
\* CORTA-COBRE-001 and REP-CORTA-001, the latter with qty 1.
C6_SpareAddedOnce ==
    (Answered /\ SpareAsked) =>
        /\ {"CORTA-COBRE-001", "REP-CORTA-001"} \subseteq Skus(res.basket)
        /\ \A i \in DOMAIN res.basket :
              res.basket[i].sku = "REP-CORTA-001" => res.basket[i].qty = 1

\* C6 amended: on such a turn, for every proposal that parses, the final basket
\* holds REP-CORTA-001, and CORTA-COBRE-001 when it is a candidate; the
\* REP-CORTA-001 line has qty 1 unless the proposal carried a REP-CORTA-001 line,
\* whose quantity (floored at 1) is then kept.
C6_SpareAdded ==
    (Reconciled /\ SpareAsked) =>
        /\ "REP-CORTA-001" \in Skus(res.basket)
        /\ "CORTA-COBRE-001" \in CandidateSet => "CORTA-COBRE-001" \in Skus(res.basket)
        /\ \A i \in DOMAIN res.basket :
              res.basket[i].sku = "REP-CORTA-001" =>
                  IF hasSku(proposal.basket, "REP-CORTA-001")
                  THEN \E j \in DOMAIN proposal.basket :
                          /\ proposal.basket[j].sku = "REP-CORTA-001"
                          /\ res.basket[i].qty = Max(1, proposal.basket[j].qty)
                  ELSE res.basket[i].qty = 1

\* the spare was asked for, the proposal left it out and the handler added it
C6_SpareEnsured ==
    /\ Reconciled /\ SpareAsked
    /\ ~hasSku(proposal.basket, "REP-CORTA-001")
    /\ {"CORTA-COBRE-001", "REP-CORTA-001"} \subseteq Skus(res.basket)

\* C7: when the proposal is no JSON, the turn answers 200 with the fixed fallback
\* plan (empty basket, empty upsell, the generic reply), and nothing is reconciled:
\* the generative call is the last call of the turn.
C7_MalformedGivesFallbackPlan ==
    (pc = "done" /\ proposal.kind = "malformed") =>
        /\ res.status = 200 /\ res.basket = <<>> /\ res.upsell = <<>>
        /\ res.reply = replyFallback
        /\ calls[Len(calls)] = "generateContent"

\* a malformed proposal on a turn that had a cart and candidates to reconcile
C7_MalformedWithCart ==
    pc = "done" /\ proposal.kind = "malformed" /\ req.cart # <<>> /\ CandidateSet # {}

\* C8 as stated: when the generative call throws, the turn degrades to the fixed
\* fallback plan instead of failing, and the call is not retried.
C8_ThrowDegradesToFallback ==
    (pc = "done" /\ proposal.kind = "throws") =>
        /\ res.status = 200 /\ res.basket = <<>> /\ res.upsell = <<>>
        /\ res.reply = replyFallback
        /\ GenerativeCalls = 1

\* C8 amended: when the generative call throws, the turn fails with status 500 and
\* returns no plan, and the call is not retried.
C8_ThrowFailsTheTurn ==
    (pc = "done" /\ proposal.kind = "throws") =>
        /\ res.status = 500 /\ res.basket = <<>> /\ res.upsell = <<>> /\ res.reply = ""
        /\ GenerativeCalls = 1

\* the generative call threw on a turn that had a cart
C8_ThrowWithCart ==
    pc = "done" /\ proposal.kind = "throws" /\ req.cart # <<>>

\* the precondition of C9: not End, not Replace, no removal asked
NormalTurn ==
    /\ ~said(req.q).isEnd /\ ~said(req.q).isReplace /\ ~said(req.q).userWantsRemoval

\* every cart SKU of the candidate set is in the final basket, with the cart's quantity
CartKept ==
    \A sku \in CartSet \cap CandidateSet :
        /\ sku \in Skus(res.basket)
        /\ \A i \in DOMAIN res.basket :
              res.basket[i].sku = sku => res.basket[i].qty = cartQty(sku)

\* C9 as stated: on a turn that is not End, not Replace and asks no removal, every
\* cart SKU of the candidate set is in the final basket, for every proposal.
C9_CartKeptForEveryProposal ==
    (Answered /\ NormalTurn) => CartKept

\* C9 amended: the same, for every proposal that parses (the fallback plan of a
\* malformed proposal has an empty basket).
C9_CartKeptForParsedProposal ==
    (Reconciled /\ NormalTurn) => CartKept

\* a normal turn whose validated proposal left out a cart SKU that is a candidate,
\* and kept another line
C9_OmittedCartLineReadded ==
    /\ Reconciled /\ NormalTurn /\ Validated # <<>>
    /\ (CartSet \cap CandidateSet) \ Skus(Validated) # {}
    /\ CartSet \cap CandidateSet \subseteq Skus(res.basket)

\* C10 as stated: on a turn whose utterance asks a removal, a cart SKU that the
\* validated proposal left out is not in the final basket, also when the utterance
\* is classified Add.
C10_RemovalNotReadded ==
    (Reconciled /\ said(req.q).userWantsRemoval) =>
        (CartSet \ Skus(Validated)) \cap Skus(res.basket) = {}

(***************************************************************************)
(* Properties of the keyword picker and of the upsell rules (SpecFn).      *)
(***************************************************************************)
\* the picker has returned
Picked == pc = "picked"

\* the score of a candidate for the utterance of the call, and its place in the list
scoreIn(c) == scoreOf(req.q, normalized(req.q), c)
placeIn(c) == CHOOSE i \in DOMAIN bySku : bySku[i] = c

\* C11: the picker returns at most max candidates, all of score > 0, in non-increasing
\* score order with ties in the order of the candidate list, and no candidate left out
\* has a higher score than one returned.
C11_PickerReturnsTopScores ==
    Picked =>
        /\ Len(res.basket) <= req.max
        /\ \A i \in DOMAIN res.basket :
              res.basket[i] \in Range(bySku) /\ scoreIn(res.basket[i]) > 0
        /\ \A i, j \in DOMAIN res.basket :
              i < j => \/ scoreIn(res.basket[i]) > scoreIn(res.basket[j])
                       \/ /\ scoreIn(res.basket[i]) = scoreIn(res.basket[j])
                          /\ placeIn(res.basket[i]) < placeIn(res.basket[j])
        /\ \A c \in Range(bySku) \ Range(res.basket), i \in DOMAIN res.basket :
              scoreIn(c) <= scoreIn(res.basket[i])

\* a call whose cap cut candidates of score > 0 off, whose result holds a tie, and
\* whose list begins with a candidate of score 0
C11_CappedPickWithTie ==
    /\ Picked /\ Len(res.basket) = req.max
    /\ scoreIn(bySku[1]) = 0
    /\ \E c \in Range(bySku) \ Range(res.basket) : scoreIn(c) > 0
    /\ \E i, j \in DOMAIN res.basket : i < j /\ scoreIn(res.basket[i]) = scoreIn(res.basket[j])

\* does a product match the picker's group of teflon words (the second of keywords)?
MatchesTeflon ==
    [sku \in CatalogSkus |->
        IncludesAny(hay(CHOOSE p \in Range(Catalog) : p.sku = sku), keywords[2])]

\* the candidates of the call that match the teflon group and are in stock
teflonInStock == {c \in Range(bySku) : MatchesTeflon[c.sku] /\ c.stock > 0}

\* a call whose utterance mentions teflon and whose list has exactly one such candidate
LoneTeflonMatch == Picked /\ said(req.q).wantsTeflon /\ Cardinality(teflonInStock) = 1

\* C12 as stated: on such a call the picker returns that candidate first, for every
\* ordering of the list, whatever the other candidates and the other words are.
C12_TeflonMatchAlwaysFirst ==
    LoneTeflonMatch => (res.basket # <<>> /\ res.basket[1] \in teflonInStock)

\* C12 amended: on such a call the picker returns that candidate first, for every
\* ordering of the list, when no other candidate shares a keyword group with the
\* utterance (every other candidate scores at most 1).
C12_LoneTeflonMatchFirst ==
    (LoneTeflonMatch /\ \A c \in Range(bySku) \ teflonInStock : scoreIn(c) <= 1) =>
        (res.basket # <<>> /\ res.basket[1] \in teflonInStock)

\* the teflon candidate is returned first though in-stock candidates precede it
C12_TeflonMovedToFront ==
    /\ LoneTeflonMatch /\ Len(bySku) >= 3
    /\ \A c \in Range(bySku) \ teflonInStock : scoreIn(c) <= 1
    /\ scoreIn(bySku[1]) = 1 /\ bySku[Len(bySku)] \in teflonInStock
    /\ res.basket[1] \in teflonInStock

\* suggestUpsell has returned; the SKUs of the basket it was given and of its result
Suggested == pc = "suggested"
BasketSet == Skus(req.cart)
suggestedSkus == MapSeq(res.upsell, LAMBDA x : x.sku)

\* the targets of the rule table, in table order
RuleOrder == <<"PTF-12", "WR-8IN", "MASK-TAPE-36">>
ruleOf(sku) == CHOOSE i \in DOMAIN RuleOrder : RuleOrder[i] = sku

\* C14: suggestUpsell returns at most 2 suggestions, none of a SKU in the basket, no
\* SKU twice, in rule-table order; with a plumbing trigger and a PAINT- SKU in the
\* basket and no target in it, the result is exactly [PTF-12, WR-8IN].
C14_UpsellCappedInRuleOrder ==
    Suggested =>
        /\ Len(suggestedSkus) <= 2
        /\ \A i \in DOMAIN suggestedSkus :
              suggestedSkus[i] \in Range(RuleOrder) \ BasketSet
        /\ \A i, j \in DOMAIN suggestedSkus :
              i < j => ruleOf(suggestedSkus[i]) < ruleOf(suggestedSkus[j])
        /\ ( /\ BasketSet \cap {"PVC-GLUE-240", "PVC-CPL-050"} # {}
             /\ \E k \in BasketSet : IsPaint[k]
             /\ BasketSet \cap Range(RuleOrder) = {} )
           => suggestedSkus = <<"PTF-12", "WR-8IN">>

\* all three rules apply and the cap leaves the first two suggestions
C14_ThirdSuggestionCut ==
    /\ Suggested
    /\ "PVC-GLUE-240" \in BasketSet /\ "PAINT-WHITE-1L" \in BasketSet
    /\ BasketSet \cap Range(RuleOrder) = {}
    /\ suggestedSkus = <<"PTF-12", "WR-8IN">>

\* ---------------------------------------------------------------------------
\* Properties of the reconciliation on Replace and mixed turns (Spec)
\* ---------------------------------------------------------------------------

\* C15: on a turn that is not End and asks no removal, with a non-empty client cart
\* whose SKUs are all candidates, a proposal that parses never ends in an empty
\* basket, a Replace turn on which pickByKeywords finds no candidate included.
C15_BasketNeverEmptied ==
    ( /\ Reconciled
      /\ ~said(req.q).isEnd /\ ~said(req.q).userWantsRemoval
      /\ req.cart # <<>> /\ CartSet \subseteq CandidateSet )
    => res.basket # <<>>

\* the substitution markers of the lexicon, and the utterances that contain one of
\* them once lower-cased and stripped of diacritics
substitutionMarkers == {"mejor", "prefiero", "cambial", "en lugar de", "en vez de"}
HasMarker ==
    [u \in Utterances |-> IncludesAny(stripDiacritics(toLowerCase(u)), substitutionMarkers)]

\* C16: every utterance that contains "mejor", "prefiero", "cambial", "en lugar de"
\* or "en vez de" after lower-casing and stripping diacritics is classified Replace
\* by the handler that received it.
C16_MarkerMeansReplace ==
    (pc # "idle" /\ req.q \in Utterances /\ HasMarker[req.q]) => said(req.q).isReplace

\* C17: an End turn does no external work: when it has answered, neither a catalog
\* query nor the generative call was issued, and the answer is the terminal plan
\* whatever the catalog and the generative service do.
C17_EndDoesNoExternalWork ==
    (pc = "done" /\ said(req.q).isEnd) => (calls = <<>> /\ res = endResponse)

\* C18: the Add-path merge is applied only when the utterance is Add and not also
\* Replace: on a turn classified both, no line of the final basket is a cart line
\* carried over by the Add merge ("Conservado de tu seleccion previa.").
C18_NoAddMergeOnReplace ==
    (Reconciled /\ said(req.q).isAdd /\ said(req.q).isReplace) =>
        \A i \in DOMAIN res.basket :
            ~(res.basket[i].sku \in CartSet /\ res.basket[i].why = whyKept)

\* force-replace applied to the validated basket of a turn that is not Add, and the
\* lines it keeps once the lines of the previous cart are dropped
ForceReplaced == Reconciled /\ shouldForceReplace(req.q, Validated, req.cart)
AfterDrop == SelectSeq(Validated, LAMBDA x : x.sku \notin CartSet)

\* the categories the utterance mentions and the kept lines lack
LacksUnion  == said(req.q).wantUnion   /\ \A i \in DOMAIN AfterDrop : ~aboutLine(AfterDrop[i]).union
LacksTeflon == said(req.q).wantsTeflon /\ \A i \in DOMAIN AfterDrop : ~aboutLine(AfterDrop[i]).teflon
LacksSpare  == said(req.q).wantsSpare  /\ \A i \in DOMAIN AfterDrop : ~aboutLine(AfterDrop[i]).spare

\* C19: on a force-replace turn whose basket is non-empty after the drop but lacks a
\* category the utterance mentions, every line appended from pickByKeywords belongs
\* to a missing category and has a SKU the basket did not hold.
C19_AppendedPicksFillMissingCategory ==
    (ForceReplaced /\ AfterDrop # <<>> /\ (LacksUnion \/ LacksTeflon \/ LacksSpare)) =>
        \A i \in DOMAIN res.basket :
            i > Len(AfterDrop) =>
                /\ \/ LacksUnion  /\ aboutLine(res.basket[i]).union
                   \/ LacksTeflon /\ aboutLine(res.basket[i]).teflon
                   \/ LacksSpare  /\ aboutLine(res.basket[i]).spare
                /\ ~hasSku(AfterDrop, res.basket[i].sku)

\* a candidate shares a keyword group with the utterance of the call: each shared
\* group scores 2, the stock of the candidate at most 1
sharesGroup(c) == scoreIn(c) >= 2

\* C20: every candidate pickByKeywords returns shares a keyword group with the
\* utterance; a candidate that shares none is not returned because it is in stock.
C20_PicksShareAGroup ==
    Picked => \A i \in DOMAIN res.basket : sharesGroup(res.basket[i])

\* C21: when a catalog query of the candidate search comes back with an error (the
\* phrase, normalized-phrase or token search, the synonym lookup or the lookup of the
\* cart's SKUs), the turn answers with an error and no plan.
C21_FailedQueryFailsTheTurn ==
    (pc = "done" /\ failed # "none") => res = errorResponse

\* ---------------------------------------------------------------------------
\* Properties of the kiosk page (SpecKiosk)
\* ---------------------------------------------------------------------------

\* a step in which a request is answered, the request it answers, and whether the
\* ChatPane that sent it is the one on screen
AnswerStep == Len(inflight') < Len(inflight)
answeredRequest ==
    inflight[CHOOSE i \in DOMAIN inflight :
                inflight' = SubSeq(inflight, 1, i - 1) \o SubSeq(inflight, i + 1, Len(inflight))]
AnswerShown == AnswerStep /\ answeredRequest.owner = chatKey

\* the text of the message the step appends to the chat log
appendedText == messages'[Len(messages')].text

\* C22: a quantity the customer sets with the +/- controls is the client quantity:
\* when the next turn that is not Replace, removal or End is answered (no other turn
\* was answered since it was sent) and keeps the SKU, its basket line carries the
\* quantity shown before the answer.
C22_CustomerQuantityKept ==
    [][ ( /\ AnswerShown
          /\ ~said(answeredRequest.q).isEnd /\ ~said(answeredRequest.q).isReplace
          /\ ~said(answeredRequest.q).userWantsRemoval
          /\ answeredRequest.cart = chatCart
          /\ plan.set /\ plan'.set )
        => \A i \in DOMAIN plan.basket, j \in DOMAIN plan'.basket :
              plan'.basket[j].sku = plan.basket[i].sku
              => Max(1, plan'.basket[j].qty) = Max(1, plan.basket[i].qty) ]_vars

\* C23: when an End turn is answered after a turn whose plan had a non-empty basket,
\* "Confirmar e imprimir" still prints a ticket with those items: the answer leaves the
\* items of the ticket as they were, so the refusal for an empty basket is not reached.
C23_EndKeepsTicketItems ==
    [][ ( /\ AnswerShown
          /\ said(answeredRequest.q).isEnd /\ appendedText = replyEnd
          /\ ticketItems(plan) # <<>> )
        => ticketItems(plan') = ticketItems(plan) ]_vars

\* C24: a turn answered with the malformed-proposal fallback leaves the selection
\* intact: the cart ChatPane holds for the next request is the cart it sent with the
\* failed turn.
C24_FallbackKeepsCart ==
    [][ (AnswerShown /\ appendedText = replyFallback)
        => chatCart' = answeredRequest.cart ]_vars

\* C25: after a reset the plan shown stays empty until a message sent after the
\* reset is answered: a plan is shown only when the chat log on screen holds an
\* assistant message after its greeting.
C25_PlanOnlyFromThisChat ==
    plan.set => \E k \in DOMAIN messages : k > 1 /\ messages[k].role = "assistant"

\* the requests of the ChatPane on screen that await their response
awaited == {i \in DOMAIN inflight : inflight[i].owner = chatKey}

\* C26: at most one request of the page is in flight, and it was sent with the cart
\* and the chat log of the most recently completed turn: the cart ChatPane holds, and
\* the log up to the request's own user message.
C26_OneRequestWithLatestState ==
    /\ Cardinality(awaited) <= 1
    /\ \A i \in awaited :
          /\ inflight[i].cart = chatCart
          /\ inflight[i].history < Len(messages)
          /\ messages[inflight[i].history + 1] = [role |-> "user", text |-> inflight[i].q]

\* C27: every user message of the chat log was sent to the agent: it has been
\* followed by an assistant message or its request is awaited, so the log holds as
\* many user messages as answers and awaited requests together.
C27_EveryUserMessageSent ==
    Cardinality({k \in DOMAIN messages : messages[k].role = "user"})
    = Cardinality({k \in DOMAIN messages : k > 1 /\ messages[k].role = "assistant"})
      + Cardinality(awaited)
====
